---- MODULE Spec2Model ----
(***************************************************************************)
(* Entity / Service / Host orchestration layer of inspeqtor (types.go):    *)
(* the process-status state machine (Transition), the init-system          *)
(* resolution protocol (Resolve), the per-cycle Collect control flow with  *)
(* its deferred completion callback, Restart with its detached goroutine,  *)
(* and Verify.                                                             *)
(*                                                                         *)
(* Collect is modelled step by step (one step per external call it makes)  *)
(* because it runs in a goroutine per Checkable; Resolve, Restart and      *)
(* Verify are synchronous calls of the single main goroutine and are one   *)
(* step each.  The variable `last` records what the most recent step did   *)
(* (its inputs, the Init Systems it queried, the events it handed to the   *)
(* EventHandler, its return value); it is the observation the properties   *)
(* are stated on.                                                          *)
(***************************************************************************)
EXTENDS Integers, Sequences, FiniteSets, TLC

\* ---------------------------------------------------------------- bounds
MaxPid == 1
MaxMgrs == 3
MaxInFlight == 1

\* ------------------------------------------------------------- constants
Nil == "nil"

\* services.Status values
Unknown == "Unknown"
Starting == "Starting"
Up == "Up"
Down == "Down"
Status == {Unknown, Starting, Up, Down}

\* EventType values
ProcessExists == "ProcessExists"
ProcessDoesNotExist == "ProcessDoesNotExist"

Pids == 0..MaxPid
ProcessStatus == [Pid : Pids, Status : Status]

\* The Checkables of one agent: one Service and the Host.
Services == {"web"}
Host == "localhost"
Checkables == Services \cup {Host}

\* The Init Systems a manager list can hold; Nil is an absent entry.
InitSystems == {"upstart", "runit"}
MgrLists == UNION {[1..n -> InitSystems \cup {Nil}] : n \in 0..MaxMgrs}

\* What LookupService returns: (ProcessStatus, nil) or (nil, error).  An error
\* is a *services.ServiceError wrapping ErrServiceNotFound or another error,
\* or an error value of some other dynamic type.
ErrServiceNotFound == [type |-> "ServiceError", Err |-> "ErrServiceNotFound"]
ErrManagerFailed == [type |-> "ServiceError", Err |-> "exit status 1"]
ErrForeign == [type |-> "errorString", Err |-> "timeout"]
LookupErrors == {ErrServiceNotFound, ErrManagerFailed, ErrForeign}
NoErr == [type |-> Nil, Err |-> Nil]
NoStatus == [Pid |-> 0, Status |-> Nil]
LookupResults ==
    {[ps |-> p, err |-> NoErr] : p \in ProcessStatus}
        \cup {[ps |-> NoStatus, err |-> e] : e \in LookupErrors}

ErrCouldNotFind == [type |-> "errorString", Err |-> "Could not find service"]
\* Not a return value: the call ended in a panic.
Panic == [type |-> "panic", Err |-> "interface conversion"]

VARIABLES
    Process,      \* Service.Process: the current ProcessStatus of each Service
    Manager,      \* Service.Manager: the Init System bound at resolution, or Nil
    pc,           \* position of each Checkable's Collect goroutine
    path,         \* the steps the Collect in progress has taken so far
    completed,    \* arguments completeCallback received from the latest Collect
    restarting,   \* detached Restart goroutines still in flight, per Service
    crashed,      \* the process died of an unrecovered panic
    call,         \* arguments of the Resolve call under study (ResolveSpec), the
                  \* start of the cycle under study (CycleSpec), or NoCall
    last          \* what the most recent step did

vars == <<Process, Manager, pc, path, completed, restarting, crashed, call, last>>

\* ------------------------------------------------------------ constructors
NewStatus == [Pid |-> 0, Status |-> Unknown]

NoStep ==
    [op |-> "none", who |-> Nil, lookups |-> <<>>,
     result |-> NoErr, called |-> FALSE, oldst |-> Unknown, ps |-> NewStatus,
     emitted |-> <<>>, path |-> <<>>, events |-> <<>>, triggered |-> <<>>,
     fired |-> {}, log |-> <<>>]

Step(op, who) == [NoStep EXCEPT !.op = op, !.who = who]

NoCall == [mgrs |-> <<>>, ans |-> <<>>]

Init ==
    /\ call = NoCall
    /\ Process = [s \in Services |-> NewStatus]
    /\ Manager = [s \in Services |-> Nil]
    /\ pc = [c \in Checkables |-> "idle"]
    /\ path = [c \in Checkables |-> <<>>]
    /\ completed = [c \in Checkables |-> <<>>]
    /\ restarting = [s \in Services |-> 0]
    /\ crashed = FALSE
    /\ last = NoStep

\* ------------------------------------------------------------- Transition
\* Variants of Transition with one slip each, used to test the properties:
\* the Unknown -> Up exemption dropped,
TransitionAlwaysAnnounces(proc, ps) ==
    [Process |-> ps,
     oldst |-> proc.Status,
     emitted |->
        CASE ps.Status = Up -> <<ProcessExists>>
          [] ps.Status = Down -> <<ProcessDoesNotExist>>
          [] OTHER -> <<>>]

\* ProcessExists only when the status changes,
TransitionOnChangeOnly(proc, ps) ==
    [Process |-> ps,
     oldst |-> proc.Status,
     emitted |->
        CASE ps.Status = Up ->
                IF proc.Status \notin {Unknown, Up} THEN <<ProcessExists>> ELSE <<>>
          [] ps.Status = Down -> <<ProcessDoesNotExist>>
          [] OTHER -> <<>>]

\* the pid cleared whenever the new status is Down,
TransitionClearsPid(proc, ps) ==
    [Process |-> IF ps.Status = Down THEN [ps EXCEPT !.Pid = 0] ELSE ps,
     oldst |-> proc.Status,
     emitted |->
        CASE ps.Status = Up ->
                IF proc.Status # Unknown THEN <<ProcessExists>> ELSE <<>>
          [] ps.Status = Down -> <<ProcessDoesNotExist>>
          [] OTHER -> <<>>]

\* and the default case sharing the Down case.
TransitionDefaultEmits(proc, ps) ==
    [Process |-> ps,
     oldst |-> proc.Status,
     emitted |->
        CASE ps.Status = Up ->
                IF proc.Status # Unknown THEN <<ProcessExists>> ELSE <<>>
          [] OTHER -> <<ProcessDoesNotExist>>]

\* The value Process has when Transition returns and the event types it hands
\* to its emitter, in order.  proc is s.Process before the call.
Transition(proc, ps) ==
    LET oldst == proc.Status
    IN  [Process |-> ps,
         oldst |-> oldst,
         emitted |->
            CASE ps.Status = Up ->
                    IF oldst # Unknown THEN <<ProcessExists>> ELSE <<>>
              [] ps.Status = Down -> <<ProcessDoesNotExist>>
              [] OTHER -> <<>>]

\* The emitter closure Resolve and Collect pass to Transition:
\* svc.EventHandler.Trigger(&Event{et, svc, nil}) for each type emitted.
Emitter(s, types) ==
    [i \in 1..Len(types) |-> [Type |-> types[i], Source |-> s, Payload |-> Nil]]

\* last' for a step of s that called svc.Transition(ps, emitter) with result t.
Transitioned(step, s, ps, t) ==
    [step EXCEPT !.called = TRUE, !.oldst = t.oldst, !.ps = ps,
                 !.emitted = Emitter(s, t.emitted)]

\* ---------------------------------------------------------------- Resolve
\* What each Init System answers to LookupService(svc.Name()).
Answers == [InitSystems -> LookupResults]

NoLookup == [ps |-> NoStatus, err |-> NoErr]

\* Variants of the loop with one slip each: no break after a match, so the
\* last Init System that knows the service wins,
RECURSIVE ResolveLoopLastMatch(_, _, _, _)
ResolveLoopLastMatch(mgrs, ans, i, lookups) ==
    IF i > Len(mgrs)
    THEN [stop |-> "exhausted", sm |-> Nil, ret |-> NoLookup, lookups |-> lookups]
    ELSE IF mgrs[i] = Nil THEN ResolveLoopLastMatch(mgrs, ans, i + 1, lookups)
    ELSE LET ret == ans[mgrs[i]]
             made == Append(lookups, [i |-> i, sm |-> mgrs[i], ret |-> ret])
             rest == ResolveLoopLastMatch(mgrs, ans, i + 1, made)
         IN  IF ret.err # NoErr
             THEN IF ret.err.type # "ServiceError"
                  THEN [stop |-> "panic", sm |-> mgrs[i], ret |-> ret, lookups |-> made]
                  ELSE IF ret.err.Err = ErrServiceNotFound.Err
                       THEN rest
                       ELSE [stop |-> "return", sm |-> mgrs[i], ret |-> ret,
                             lookups |-> made]
             ELSE IF rest.stop = "exhausted"
                  THEN [stop |-> "break", sm |-> mgrs[i], ret |-> ret,
                        lookups |-> rest.lookups]
                  ELSE rest

\* and an absent entry ending the loop instead of being skipped.
RECURSIVE ResolveLoopStopsAtNil(_, _, _, _)
ResolveLoopStopsAtNil(mgrs, ans, i, lookups) ==
    IF i > Len(mgrs) \/ mgrs[i] = Nil
    THEN [stop |-> "exhausted", sm |-> Nil, ret |-> NoLookup, lookups |-> lookups]
    ELSE LET ret == ans[mgrs[i]]
             made == Append(lookups, [i |-> i, sm |-> mgrs[i], ret |-> ret])
         IN  IF ret.err # NoErr
             THEN IF ret.err.type # "ServiceError"
                  THEN [stop |-> "panic", sm |-> mgrs[i], ret |-> ret, lookups |-> made]
                  ELSE IF ret.err.Err = ErrServiceNotFound.Err
                       THEN ResolveLoopStopsAtNil(mgrs, ans, i + 1, made)
                       ELSE [stop |-> "return", sm |-> mgrs[i], ret |-> ret,
                             lookups |-> made]
             ELSE [stop |-> "break", sm |-> mgrs[i], ret |-> ret, lookups |-> made]

\* The loop over mgrs from entry i on; lookups are the LookupService calls
\* made so far.  It stops by break (found), by return err, by the panic of
\* the type assertion err.(*services.ServiceError), or at the end of mgrs.
RECURSIVE ResolveLoop(_, _, _, _)
ResolveLoop(mgrs, ans, i, lookups) ==
    IF i > Len(mgrs)
    THEN [stop |-> "exhausted", sm |-> Nil, ret |-> NoLookup, lookups |-> lookups]
    ELSE IF mgrs[i] = Nil THEN ResolveLoop(mgrs, ans, i + 1, lookups)
    ELSE LET ret == ans[mgrs[i]]
             made == Append(lookups, [i |-> i, sm |-> mgrs[i], ret |-> ret])
         IN  IF ret.err # NoErr
             THEN IF ret.err.type # "ServiceError"
                  THEN [stop |-> "panic", sm |-> mgrs[i], ret |-> ret, lookups |-> made]
                  ELSE IF ret.err.Err = ErrServiceNotFound.Err
                       THEN ResolveLoop(mgrs, ans, i + 1, made)
                       ELSE [stop |-> "return", sm |-> mgrs[i], ret |-> ret,
                             lookups |-> made]
             ELSE [stop |-> "break", sm |-> mgrs[i], ret |-> ret, lookups |-> made]

\* Every way the loop can end, over all manager lists and answers.
ResolveRuns ==
    {[r EXCEPT !.lookups = <<r.lookups[Len(r.lookups)]>>] :
        r \in {x \in {ResolveLoop(mgrs, ans, 1, <<>>) :
                          mgrs \in MgrLists, ans \in Answers} : x.lookups # <<>>}}
        \cup {ResolveLoop(<<>>, [m \in InitSystems |-> NoLookup], 1, <<>>)}

\* A variant of the end of Resolve with one slip: the binding is cleared when
\* the search finds nothing.
ResolveEndClears(s, r) ==
    LET step == [Step("Resolve", s) EXCEPT !.lookups = r.lookups]
    IN  CASE r.stop = "break" ->
               LET t == Transition(Process[s], r.ret.ps)
               IN  /\ Manager' = [Manager EXCEPT ![s] = r.sm]
                   /\ Process' = [Process EXCEPT ![s] = t.Process]
                   /\ last' = Transitioned(step, s, r.ret.ps, t)
                   /\ UNCHANGED crashed
          [] r.stop = "return" ->
               /\ last' = [step EXCEPT !.result = r.ret.err]
               /\ UNCHANGED <<Manager, Process, crashed>>
          [] r.stop = "panic" ->
               /\ last' = [step EXCEPT !.result = Panic]
               /\ crashed' = TRUE
               /\ UNCHANGED <<Manager, Process>>
          [] r.stop = "exhausted" ->
               /\ last' = [step EXCEPT !.result = ErrCouldNotFind]
               /\ Manager' = [Manager EXCEPT ![s] = Nil]
               /\ UNCHANGED <<Process, crashed>>

\* Resolve once its loop has ended as r: the binding and Transition on a
\* match, the returned error, and the final svc.Manager == nil check.
ResolveEnd(s, r) ==
    LET step == [Step("Resolve", s) EXCEPT !.lookups = r.lookups]
    IN  CASE r.stop = "break" ->
               LET t == Transition(Process[s], r.ret.ps)
               IN  /\ Manager' = [Manager EXCEPT ![s] = r.sm]
                   /\ Process' = [Process EXCEPT ![s] = t.Process]
                   /\ last' = Transitioned(step, s, r.ret.ps, t)
                   /\ UNCHANGED crashed
          [] r.stop = "return" ->
               /\ last' = [step EXCEPT !.result = r.ret.err]
               /\ UNCHANGED <<Manager, Process, crashed>>
          [] r.stop = "panic" ->
               /\ last' = [step EXCEPT !.result = Panic]
               /\ crashed' = TRUE
               /\ UNCHANGED <<Manager, Process>>
          [] r.stop = "exhausted" ->
               /\ last' = [step EXCEPT !.result =
                              IF Manager[s] = Nil THEN ErrCouldNotFind ELSE NoErr]
               /\ UNCHANGED <<Manager, Process, crashed>>

\* Service.Resolve, called with any manager list against any answers; of the
\* lookups it made, `last` keeps the one the loop stopped at.
Resolve(s) ==
    /\ ~crashed
    /\ call = NoCall
    /\ \A c \in Checkables : pc[c] = "idle"
    /\ \E r \in ResolveRuns : ResolveEnd(s, r)
    /\ UNCHANGED <<pc, path, completed, restarting, call>>

\* Service.Resolve on the arguments held in `call`; `last` keeps every lookup.
ResolveCall(s) ==
    /\ ~crashed
    /\ call # NoCall
    /\ last.op = "none"
    /\ ResolveEnd(s, ResolveLoop(call.mgrs, call.ans, 1, <<>>))
    /\ UNCHANGED <<pc, path, completed, restarting, call>>

\* Host.Resolve: nothing to resolve.
HostResolve ==
    /\ ~crashed
    /\ \A c \in Checkables : pc[c] = "idle"
    /\ last' = Step("Resolve", Host)
    /\ UNCHANGED <<Process, Manager, pc, path, completed, restarting, crashed, call>>

\* ---------------------------------------------------------------- Collect
\* Variants of the entry of Service.Collect with one slip each: the early
\* return taken before the callback is deferred,
CollectEnterReturnsEarly(s) ==
    /\ ~crashed
    /\ pc[s] = "idle"
    /\ LET to == IF Manager[s] = Nil THEN "idle"
                 ELSE IF Process[s].Status # Up THEN "lookup" ELSE "capture"
           p == IF Manager[s] = Nil THEN <<"unresolved">> ELSE <<"enter">>
       IN  /\ pc' = [pc EXCEPT ![s] = to]
           /\ path' = [path EXCEPT ![s] = IF to = "idle" THEN <<>> ELSE p]
           /\ last' = [Step("Collect", s) EXCEPT !.path = p]
    /\ completed' = [completed EXCEPT ![s] = <<>>]
    /\ UNCHANGED <<Process, Manager, restarting, crashed, call>>

\* the Manager check left out,
CollectEnterUnchecked(s) ==
    /\ ~crashed
    /\ pc[s] = "idle"
    /\ LET to == IF Process[s].Status # Up THEN "lookup" ELSE "capture"
       IN  /\ pc' = [pc EXCEPT ![s] = to]
           /\ path' = [path EXCEPT ![s] = <<"enter">>]
           /\ last' = [Step("Collect", s) EXCEPT !.path = <<"enter">>]
    /\ completed' = [completed EXCEPT ![s] = <<>>]
    /\ UNCHANGED <<Process, Manager, restarting, crashed, call>>

\* the Manager queried in every cycle, whatever the status,
CollectEnterAlwaysLooksUp(s) ==
    /\ ~crashed
    /\ pc[s] = "idle"
    /\ LET to == IF Manager[s] = Nil THEN "defer" ELSE "lookup"
           p == IF Manager[s] = Nil THEN <<"unresolved">> ELSE <<"enter">>
       IN  /\ pc' = [pc EXCEPT ![s] = to]
           /\ path' = [path EXCEPT ![s] = p]
           /\ last' = [Step("Collect", s) EXCEPT !.path = p]
    /\ completed' = [completed EXCEPT ![s] = <<>>]
    /\ UNCHANGED <<Process, Manager, restarting, crashed, call>>

\* and the Manager queried only when the status is Down or Unknown.
CollectEnterSkipsStarting(s) ==
    /\ ~crashed
    /\ pc[s] = "idle"
    /\ LET to == IF Manager[s] = Nil THEN "defer"
                 ELSE IF Process[s].Status = Up THEN "capture"
                 ELSE IF Process[s].Status = Starting THEN "defer" ELSE "lookup"
           p == IF Manager[s] = Nil THEN <<"unresolved">> ELSE <<"enter">>
       IN  /\ pc' = [pc EXCEPT ![s] = to]
           /\ path' = [path EXCEPT ![s] = p]
           /\ last' = [Step("Collect", s) EXCEPT !.path = p]
    /\ completed' = [completed EXCEPT ![s] = <<>>]
    /\ UNCHANGED <<Process, Manager, restarting, crashed, call>>

\* Service.Collect, entry: the deferred callback is registered, then the
\* Manager check and the status check decide where the goroutine goes.
CollectEnter(s) ==
    /\ ~crashed
    /\ pc[s] = "idle"
    /\ LET to == IF Manager[s] = Nil THEN "defer"
                 ELSE IF Process[s].Status # Up THEN "lookup" ELSE "capture"
           p == IF Manager[s] = Nil THEN <<"unresolved">> ELSE <<"enter">>
       IN  /\ pc' = [pc EXCEPT ![s] = to]
           /\ path' = [path EXCEPT ![s] = p]
           /\ last' = [Step("Collect", s) EXCEPT !.path = p]
    /\ completed' = [completed EXCEPT ![s] = <<>>]
    /\ UNCHANGED <<Process, Manager, restarting, crashed, call>>

\* A variant of the lookup step with one slip: a failed lookup is taken for a
\* stopped process.
CollectLookupErrorIsDown(s) ==
    /\ ~crashed
    /\ pc[s] = "lookup"
    /\ \E ret \in LookupResults :
         LET step == [Step("Collect", s) EXCEPT
                          !.lookups = <<[i |-> 0, sm |-> Manager[s], ret |-> ret]>>]
             ps == IF ret.err # NoErr THEN [Pid |-> 0, Status |-> Down] ELSE ret.ps
             t == Transition(Process[s], ps)
         IN  /\ Process' = [Process EXCEPT ![s] = t.Process]
             /\ path' = [path EXCEPT ![s] =
                            Append(@, IF ret.err # NoErr THEN "lookupErr" ELSE "lookupOk")]
             /\ last' = [Transitioned(step, s, ps, t) EXCEPT !.path = path'[s]]
    /\ pc' = [pc EXCEPT ![s] = IF Process'[s].Status = Up THEN "capture" ELSE "defer"]
    /\ UNCHANGED <<Manager, completed, restarting, crashed, call>>

\* status != Up: svc.Manager.LookupService, then Transition on success.
CollectLookup(s) ==
    /\ ~crashed
    /\ pc[s] = "lookup"
    /\ \E ret \in LookupResults :
         LET step == [Step("Collect", s) EXCEPT
                          !.lookups = <<[i |-> 0, sm |-> Manager[s], ret |-> ret]>>]
         IN  IF ret.err # NoErr
             THEN /\ path' = [path EXCEPT ![s] = Append(@, "lookupErr")]
                  /\ last' = [step EXCEPT !.path = path'[s]]
                  /\ UNCHANGED Process
             ELSE LET t == Transition(Process[s], ret.ps)
                  IN  /\ Process' = [Process EXCEPT ![s] = t.Process]
                      /\ path' = [path EXCEPT ![s] = Append(@, "lookupOk")]
                      /\ last' = [Transitioned(step, s, ret.ps, t) EXCEPT !.path = path'[s]]
    /\ pc' = [pc EXCEPT ![s] = IF Process'[s].Status = Up THEN "capture" ELSE "defer"]
    /\ UNCHANGED <<Manager, completed, restarting, crashed, call>>

\* status == Up: svc.Capture("/proc").
CollectCapture(s) ==
    /\ ~crashed
    /\ pc[s] = "capture"
    /\ \E merr \in BOOLEAN :
         /\ path' = [path EXCEPT ![s] = Append(@, IF merr THEN "captureErr" ELSE "captureOk")]
         /\ pc' = [pc EXCEPT ![s] = IF merr THEN "probe" ELSE "defer"]
    /\ last' = [Step("Collect", s) EXCEPT !.path = path'[s]]
    /\ UNCHANGED <<Process, Manager, completed, restarting, crashed, call>>

\* Variants of the probe step with one slip each: the Down status is one
\* object that every Service points to,
CollectProbeSharedStatus(s) ==
    /\ ~crashed
    /\ pc[s] = "probe"
    /\ \E err \in (IF Process[s].Pid = 0 THEN {FALSE} ELSE BOOLEAN) :
         IF err
         THEN LET ps == [Pid |-> 0, Status |-> Down]
                  t == Transition(Process[s], ps)
              IN  /\ Process' = [x \in DOMAIN Process |-> t.Process]
                  /\ path' = [path EXCEPT ![s] = Append(@, "probeGone")]
                  /\ last' = [Transitioned(Step("Collect", s), s, ps, t) EXCEPT
                                  !.path = path'[s]]
         ELSE /\ path' = [path EXCEPT ![s] = Append(@, "probeAlive")]
              /\ last' = [Step("Collect", s) EXCEPT !.path = path'[s]]
              /\ UNCHANGED Process
    /\ pc' = [pc EXCEPT ![s] = "defer"]
    /\ UNCHANGED <<Manager, completed, restarting, crashed, call>>

\* a failed capture alone marks the Service Down,
CollectProbeIgnored(s) ==
    /\ ~crashed
    /\ pc[s] = "probe"
    /\ \E err \in (IF Process[s].Pid = 0 THEN {FALSE} ELSE BOOLEAN) :
         LET ps == [Pid |-> 0, Status |-> Down]
             t == Transition(Process[s], ps)
         IN  /\ Process' = [Process EXCEPT ![s] = t.Process]
             /\ path' = [path EXCEPT ![s] =
                            Append(@, IF err THEN "probeGone" ELSE "probeAlive")]
             /\ last' = [Transitioned(Step("Collect", s), s, ps, t) EXCEPT
                             !.path = path'[s]]
    /\ pc' = [pc EXCEPT ![s] = "defer"]
    /\ UNCHANGED <<Manager, completed, restarting, crashed, call>>

\* the Down status built with the pid of the process that is gone,
CollectProbeKeepsPid(s) ==
    /\ ~crashed
    /\ pc[s] = "probe"
    /\ \E err \in (IF Process[s].Pid = 0 THEN {FALSE} ELSE BOOLEAN) :
         IF err
         THEN LET ps == [Pid |-> Process[s].Pid, Status |-> Down]
                  t == Transition(Process[s], ps)
              IN  /\ Process' = [Process EXCEPT ![s] = t.Process]
                  /\ path' = [path EXCEPT ![s] = Append(@, "probeGone")]
                  /\ last' = [Transitioned(Step("Collect", s), s, ps, t) EXCEPT
                                  !.path = path'[s]]
         ELSE /\ path' = [path EXCEPT ![s] = Append(@, "probeAlive")]
              /\ last' = [Step("Collect", s) EXCEPT !.path = path'[s]]
              /\ UNCHANGED Process
    /\ pc' = [pc EXCEPT ![s] = "defer"]
    /\ UNCHANGED <<Manager, completed, restarting, crashed, call>>

\* and the Down status assigned without Transition.
CollectProbeAssignsDown(s) ==
    /\ ~crashed
    /\ pc[s] = "probe"
    /\ \E err \in (IF Process[s].Pid = 0 THEN {FALSE} ELSE BOOLEAN) :
         /\ Process' = [Process EXCEPT ![s] =
                           IF err THEN [Pid |-> 0, Status |-> Down] ELSE @]
         /\ path' = [path EXCEPT ![s] =
                        Append(@, IF err THEN "probeGone" ELSE "probeAlive")]
         /\ last' = [Step("Collect", s) EXCEPT !.path = path'[s]]
    /\ pc' = [pc EXCEPT ![s] = "defer"]
    /\ UNCHANGED <<Manager, completed, restarting, crashed, call>>

\* Capture failed: syscall.Kill(pid, 0); an error means the process is gone.
\* With pid 0 the signal goes to the agent's own process group and the call
\* cannot fail.
CollectProbe(s) ==
    /\ ~crashed
    /\ pc[s] = "probe"
    /\ \E err \in (IF Process[s].Pid = 0 THEN {FALSE} ELSE BOOLEAN) :
         IF err
         THEN LET ps == [Pid |-> 0, Status |-> Down]
                  t == Transition(Process[s], ps)
              IN  /\ Process' = [Process EXCEPT ![s] = t.Process]
                  /\ path' = [path EXCEPT ![s] = Append(@, "probeGone")]
                  /\ last' = [Transitioned(Step("Collect", s), s, ps, t) EXCEPT
                                  !.path = path'[s]]
         ELSE /\ path' = [path EXCEPT ![s] = Append(@, "probeAlive")]
              /\ last' = [Step("Collect", s) EXCEPT !.path = path'[s]]
              /\ UNCHANGED Process
    /\ pc' = [pc EXCEPT ![s] = "defer"]
    /\ UNCHANGED <<Manager, completed, restarting, crashed, call>>

\* The function returns: defer completeCallback(c) runs.
CollectReturn(c) ==
    /\ ~crashed
    /\ pc[c] = "defer"
    /\ completed' = [completed EXCEPT ![c] = Append(@, c)]
    /\ pc' = [pc EXCEPT ![c] = "idle"]
    /\ path' = [path EXCEPT ![c] = <<>>]
    /\ last' = [Step("Collect", c) EXCEPT !.path = Append(path[c], "return")]
    /\ UNCHANGED <<Process, Manager, restarting, crashed, call>>

Collect(s) ==
    \/ CollectEnter(s)
    \/ CollectLookup(s)
    \/ CollectCapture(s)
    \/ CollectProbe(s)
    \/ CollectReturn(s)

\* Host.Collect: defer the callback, capture host metrics, warn on failure.
HostCollectEnter ==
    /\ ~crashed
    /\ pc[Host] = "idle"
    /\ pc' = [pc EXCEPT ![Host] = "capture"]
    /\ path' = [path EXCEPT ![Host] = <<"enter">>]
    /\ completed' = [completed EXCEPT ![Host] = <<>>]
    /\ last' = [Step("Collect", Host) EXCEPT !.path = <<"enter">>]
    /\ UNCHANGED <<Process, Manager, restarting, crashed, call>>

HostCapture ==
    /\ ~crashed
    /\ pc[Host] = "capture"
    /\ \E err \in BOOLEAN :
         path' = [path EXCEPT ![Host] = Append(@, IF err THEN "captureErr" ELSE "captureOk")]
    /\ pc' = [pc EXCEPT ![Host] = "defer"]
    /\ last' = [Step("Collect", Host) EXCEPT !.path = path'[Host]]
    /\ UNCHANGED <<Process, Manager, completed, restarting, crashed, call>>

HostCollect ==
    \/ HostCollectEnter
    \/ HostCapture
    \/ CollectReturn(Host)

\* ---------------------------------------------------------------- Restart
\* A variant of the synchronous part with one slip: the pid is not reset.
RestartSyncKeepsPid(proc) == [proc EXCEPT !.Status = Starting]

\* The synchronous part: the two assignments to the Process Status in place.
RestartSync(proc) == [proc EXCEPT !.Pid = 0, !.Status = Starting]

Restart(s) ==
    /\ ~crashed
    /\ pc[s] = "idle"
    /\ restarting[s] < MaxInFlight
    /\ Process' = [Process EXCEPT ![s] = RestartSync(@)]
    /\ restarting' = [restarting EXCEPT ![s] = @ + 1]
    /\ last' = Step("Restart", s)
    /\ UNCHANGED <<Manager, pc, path, completed, crashed, call>>

\* A variant of the detached goroutine with one slip: a restart the Manager
\* accepted marks the Service Up.
RestartTaskMarksUp(s) ==
    /\ ~crashed
    /\ restarting[s] > 0
    /\ restarting' = [restarting EXCEPT ![s] = @ - 1]
    /\ IF Manager[s] = Nil
       THEN /\ crashed' = TRUE
            /\ last' = [Step("Restart.go", s) EXCEPT !.result = Panic]
            /\ UNCHANGED Process
       ELSE /\ \E err \in {NoErr, ErrManagerFailed} :
                 /\ last' = [Step("Restart.go", s) EXCEPT !.result = err]
                 /\ Process' = [Process EXCEPT ![s] =
                                   IF err = NoErr THEN [@ EXCEPT !.Status = Up] ELSE @]
            /\ UNCHANGED crashed
    /\ UNCHANGED <<Manager, pc, path, completed, call>>

\* The detached goroutine: s.Manager.Restart(s.Name()), its error only logged.
\* With no Manager bound the call is on a nil interface and panics.
RestartTask(s) ==
    /\ ~crashed
    /\ restarting[s] > 0
    /\ restarting' = [restarting EXCEPT ![s] = @ - 1]
    /\ IF Manager[s] = Nil
       THEN /\ crashed' = TRUE
            /\ last' = [Step("Restart.go", s) EXCEPT !.result = Panic]
       ELSE /\ \E err \in {NoErr, ErrManagerFailed} :
                 last' = [Step("Restart.go", s) EXCEPT !.result = err]
            /\ UNCHANGED crashed
    /\ UNCHANGED <<Process, Manager, pc, path, completed, call>>

\* ----------------------------------------------------------------- Verify
\* The fixed rule set of each Entity; a rule is its ordered Actions.  A
\* "restart" Action calls Restart on its Service, an "alert" Action notifies.
Rules(c) ==
    IF c \in Services
    THEN << [Actions |-> <<"alert">>],
            [Actions |-> <<"alert", "restart">>],
            [Actions |-> <<>>] >>
    ELSE << [Actions |-> <<"alert">>] >>

\* What one pass of the loop body does for rule i whose Check yielded evt:
\* the Event is appended and each Action of the rule is triggered with it.
NoVerify == [events |-> <<>>, triggered |-> <<>>, log |-> <<>>]

Checked(acc, i) ==
    [acc EXCEPT !.log = Append(@, [kind |-> "check", rule |-> i, action |-> 0])]

Triggered(acc, i, acts, evt) ==
    [acc EXCEPT
        !.triggered = @ \o [k \in 1..Len(acts) |->
                               [rule |-> i, action |-> acts[k], evt |-> evt]],
        !.log = @ \o [k \in 1..Len(acts) |->
                         [kind |-> "trigger", rule |-> i, action |-> k]]]

\* A variant of the loop with one slip: the Actions of a rule are triggered
\* whether or not its Check yielded an Event.
RECURSIVE VerifyLoopTriggersAll(_, _, _, _)
VerifyLoopTriggersAll(c, fired, i, acc) ==
    IF i > Len(Rules(c)) THEN acc
    ELSE LET evt == [Type |-> "RuleFailed", Source |-> c, Payload |-> i]
             acts == Rules(c)[i].Actions
             chk == Checked(acc, i)
             app == IF i \in fired
                    THEN [chk EXCEPT !.events = Append(@, evt)] ELSE chk
         IN  VerifyLoopTriggersAll(c, fired, i + 1, Triggered(app, i, acts, evt))

\* The loop of Verify from rule i on; fired is the set of rules whose Check
\* yields an Event.  acc holds the events appended, the Actions triggered and
\* the order of the Check and Trigger calls.
RECURSIVE VerifyLoop(_, _, _, _)
VerifyLoop(c, fired, i, acc) ==
    IF i > Len(Rules(c)) THEN acc
    ELSE IF i \notin fired THEN VerifyLoop(c, fired, i + 1, Checked(acc, i))
    ELSE LET evt == [Type |-> "RuleFailed", Source |-> c, Payload |-> i]
             acts == Rules(c)[i].Actions
             app == [Checked(acc, i) EXCEPT !.events = Append(@, evt)]
         IN  VerifyLoop(c, fired, i + 1, Triggered(app, i, acts, evt))

Restarts(triggered) ==
    Cardinality({k \in 1..Len(triggered) : triggered[k].action = "restart"})

Verify(c) ==
    /\ ~crashed
    /\ pc[c] = "idle"
    /\ \E fired \in SUBSET (1..Len(Rules(c))) :
         LET v == VerifyLoop(c, fired, 1, NoVerify)
             n == Restarts(v.triggered)
         IN  /\ last' = [Step("Verify", c) EXCEPT !.events = v.events,
                                                  !.triggered = v.triggered,
                                                  !.fired = fired,
                                                  !.log = v.log]
             /\ IF n > 0
                THEN /\ restarting[c] + n <= MaxInFlight
                     /\ Process' = [Process EXCEPT ![c] = RestartSync(@)]
                     /\ restarting' = [restarting EXCEPT ![c] = @ + n]
                ELSE UNCHANGED <<Process, restarting>>
    /\ UNCHANGED <<Manager, pc, path, completed, crashed, call>>

\* ------------------------------------------------------------------- Spec
Next ==
    \/ \E s \in Services : Resolve(s)
    \/ HostResolve
    \/ \E s \in Services : Collect(s)
    \/ HostCollect
    \/ \E s \in Services : Restart(s)
    \/ \E s \in Services : RestartTask(s)
    \/ \E c \in Checkables : Verify(c)

Spec == Init /\ [][Next]_vars

\* The life of the agent: Resolve is called once per Service, at startup,
\* before any cycle; then the scheduler's Collect and Verify cycles and the
\* Restart calls follow in any order.
ResolveAtStartup(s) ==
    /\ last.op = "none"
    /\ Resolve(s)

LifeNext ==
    \/ \E s \in Services : ResolveAtStartup(s)
    \/ \E s \in Services : Collect(s)
    \/ HostCollect
    \/ \E s \in Services : Restart(s)
    \/ \E s \in Services : RestartTask(s)
    \/ \E c \in Checkables : Verify(c)

LifeSpec == Init /\ [][LifeNext]_vars

\* A lookup of Collect that the Manager answers without error.
CollectLookupSucceeds(s) ==
    /\ CollectLookup(s)
    /\ last'.lookups[1].ret.err = NoErr

\* The scheduler runs the Collect of every Service again and again, each to
\* its end, and the Manager does not fail every lookup for ever.
FairLifeSpec ==
    /\ LifeSpec
    /\ \A s \in Services : WF_vars(Collect(s))
    /\ \A s \in Services : SF_vars(CollectLookupSucceeds(s))

\* One cycle of the scheduler over two Services and the Host: each Collect
\* runs in its own goroutine, once, and their steps interleave freely.  A
\* Service starts the cycle unresolved and fresh, or bound and in one of the
\* states a cycle finds it in: Unknown, Starting or Down with pid 0, or Up with
\* a pid.  `call` keeps the Process Status and the Manager each had when the
\* cycle began.
Pair == {"web", "db"}

CycleStarts ==
    {[Manager |-> Nil, Process |-> NewStatus]} \cup
    {[Manager |-> "upstart", Process |-> ps] :
        ps \in {x \in ProcessStatus : (x.Status = Up) = (x.Pid # 0)}}

CycleInit ==
    /\ \E st \in [Pair -> CycleStarts] :
          /\ Process = [s \in Pair |-> st[s].Process]
          /\ Manager = [s \in Pair |-> st[s].Manager]
    /\ call = [start |-> Process, bound |-> Manager]
    /\ pc = [c \in Pair \cup {Host} |-> "idle"]
    /\ path = [c \in Pair \cup {Host} |-> <<>>]
    /\ completed = [c \in Pair \cup {Host} |-> <<>>]
    /\ restarting = [s \in Pair |-> 0]
    /\ crashed = FALSE
    /\ last = NoStep

CycleNext ==
    \/ \E s \in Pair : completed[s] = <<>> /\ Collect(s)
    \/ completed[Host] = <<>> /\ HostCollect

CycleSpec == CycleInit /\ [][CycleNext]_vars

\* Resolve at startup, as a function of its arguments: a fresh Service, any
\* manager list and any answers of the Init Systems, one call.
ResolveInit ==
    /\ call \in [mgrs : MgrLists, ans : Answers]
    /\ Process = [s \in Services |-> NewStatus]
    /\ Manager = [s \in Services |-> Nil]
    /\ pc = [c \in Checkables |-> "idle"]
    /\ path = [c \in Checkables |-> <<>>]
    /\ completed = [c \in Checkables |-> <<>>]
    /\ restarting = [s \in Services |-> 0]
    /\ crashed = FALSE
    /\ last = NoStep

ResolveNext == \E s \in Services : ResolveCall(s)

ResolveSpec == ResolveInit /\ [][ResolveNext]_vars

\* ============================================================ properties

\* An Event of type et with Service s as its source.
EventOf(et, s) == [Type |-> et, Source |-> s, Payload |-> Nil]

\* C1: every Collect(onComplete) of a Service or of the Host invokes
\* onComplete exactly once, with that Checkable as argument, on every exit
\* path: not before the function returns, and once when it has returned.
CollectCompletesOnce ==
    \A c \in Checkables :
        /\ pc[c] # "idle" => completed[c] = <<>>
        /\ (last.op = "Collect" /\ last.who = c /\ pc[c] = "idle")
               => completed[c] = <<c>>

\* C1 witness: a Service's Collect has returned through the failed capture
\* and the failed liveness probe, and the callback received the Service.
CollectCompletesOnceWitness ==
    \E s \in Services :
        /\ last.op = "Collect" /\ last.who = s /\ pc[s] = "idle"
        /\ last.path = <<"enter", "lookupOk", "captureErr", "probeGone", "return">>
        /\ completed[s] = <<s>>

\* C2: a Transition from Unknown to Up emits no event, and the Service's
\* Process Status becomes the new value.
TransitionUnknownToUpIsSilent ==
    (last.called /\ last.oldst = Unknown /\ last.ps.Status = Up)
        => /\ last.emitted = <<>>
           /\ Process[last.who] = last.ps

\* C2 witness: a Transition from Unknown to Up has just been made.
TransitionUnknownToUpWitness ==
    /\ last.called /\ last.oldst = Unknown /\ last.ps.Status = Up
    /\ last.ps.Pid # 0
    /\ Process[last.who] = last.ps

\* C3: a Transition to Up from Starting, Down or Up emits exactly one event,
\* a ProcessExists.
TransitionToUpAnnounces ==
    (last.called /\ last.oldst \in {Starting, Down, Up} /\ last.ps.Status = Up)
        => last.emitted = <<EventOf(ProcessExists, last.who)>>

\* C3 witness: a Transition from Up to Up has just emitted its ProcessExists.
TransitionToUpWitness ==
    /\ last.called /\ last.oldst = Up /\ last.ps.Status = Up
    /\ last.emitted = <<EventOf(ProcessExists, last.who)>>

\* C4 as claimed: a Transition to Down emits exactly one ProcessDoesNotExist
\* and leaves the Service's pid at 0, whatever pid the new value carries.
TransitionToDownResetsPid ==
    (last.called /\ last.ps.Status = Down)
        => /\ last.emitted = <<EventOf(ProcessDoesNotExist, last.who)>>
           /\ Process[last.who].Pid = 0

\* C4 as amended: a Transition to Down, whatever the old status, emits exactly
\* one ProcessDoesNotExist, and the Service's pid after the call is the pid
\* the new Process Status value carries: 0 when Collect's failed liveness
\* probe makes the call.
TransitionToDownKeepsGivenPid ==
    (last.called /\ last.ps.Status = Down)
        => /\ last.emitted = <<EventOf(ProcessDoesNotExist, last.who)>>
           /\ Process[last.who] = last.ps
           /\ (last.path # <<>> /\ last.path[Len(last.path)] = "probeGone")
                  => Process[last.who].Pid = 0

\* C4 witness: a Transition to Down with a non-zero pid has just been made.
TransitionToDownWitness ==
    /\ last.called /\ last.ps.Status = Down /\ last.ps.Pid # 0
    /\ last.oldst = Down
    /\ last.emitted = <<EventOf(ProcessDoesNotExist, last.who)>>
    /\ Process[last.who].Pid = last.ps.Pid

\* C5: a Transition whose new status is Starting, or any status other than Up
\* and Down, emits no event, whatever the old status.
TransitionToOtherIsSilent ==
    (last.called /\ last.ps.Status \notin {Up, Down}) => last.emitted = <<>>

\* C5 witness: a Transition from Down to Starting has just been made.
TransitionToOtherWitness ==
    /\ last.called /\ last.ps.Status = Starting /\ last.oldst = Down
    /\ last.emitted = <<>>
\* ---- Resolve, as a function of call.mgrs and call.ans (ResolveSpec)

\* The usable entries of a manager list.
Usable(mgrs) == {i \in 1..Len(mgrs) : mgrs[i] # Nil}

\* The first usable entry whose Init System answers anything but "service not
\* found", or 0 when there is none.
Decisive(mgrs, ans) ==
    LET D == {i \in Usable(mgrs) : ans[mgrs[i]].err # ErrServiceNotFound}
    IN  IF D = {} THEN 0 ELSE CHOOSE i \in D : \A j \in D : i <= j

\* The lookups of the last step were made at exactly the entries S of the
\* list, each once, in list order, each on the Init System of its entry.
QueriedExactly(S) ==
    /\ Len(last.lookups) = Cardinality(S)
    /\ \A k \in 1..Len(last.lookups) :
         /\ last.lookups[k].i \in S
         /\ last.lookups[k].sm = call.mgrs[last.lookups[k].i]
         /\ \A j \in 1..(k - 1) : last.lookups[j].i < last.lookups[k].i

\* C6: Resolve queries the usable Init Systems in list order and, at the
\* first whose lookup succeeds, binds Manager to it, applies Transition with
\* the Process Status it returned and stops: none later is queried.
ResolveFirstMatchWins ==
    \A s \in Services :
        LET d == Decisive(call.mgrs, call.ans)
        IN  (/\ last.op = "Resolve" /\ last.who = s
             /\ d # 0
             /\ call.ans[call.mgrs[d]].err = NoErr)
                => /\ QueriedExactly({i \in Usable(call.mgrs) : i <= d})
                   /\ Manager[s] = call.mgrs[d]
                   /\ last.called
                   /\ last.ps = call.ans[call.mgrs[d]].ps
                   /\ Process[s] = last.ps
                   /\ last.result = NoErr

\* C6 witness: Resolve has skipped an absent first entry and bound the second
\* entry of three, though the third, another Init System, would have known
\* the service too and was not queried.
ResolveFirstMatchWitness ==
    \E s \in Services :
        /\ last.op = "Resolve" /\ last.who = s
        /\ Len(call.mgrs) = 3
        /\ Usable(call.mgrs) = {2, 3}
        /\ call.mgrs[3] # call.mgrs[2]
        /\ call.ans[call.mgrs[2]].err = NoErr
        /\ call.ans[call.mgrs[3]].err = NoErr
        /\ call.ans[call.mgrs[2]].ps.Status = Up
        /\ Manager[s] = call.mgrs[2]
        /\ Len(last.lookups) = 1

\* C7: when every usable Init System answers "service not found", Resolve
\* queries them all, skipping absent entries, returns the "could not find
\* service" error, leaves Manager unset and Process Status at Unknown, and
\* emits no event.
ResolveNotFoundAnywhere ==
    \A s \in Services :
        (/\ last.op = "Resolve" /\ last.who = s
         /\ \A i \in Usable(call.mgrs) : call.ans[call.mgrs[i]].err = ErrServiceNotFound)
            => /\ QueriedExactly(Usable(call.mgrs))
               /\ last.result = ErrCouldNotFind
               /\ Manager[s] = Nil
               /\ Process[s] = NewStatus
               /\ ~last.called
               /\ last.emitted = <<>>
               /\ ~crashed

\* C7 witness: Resolve has failed on a list of an Init System, an absent
\* entry and another Init System, having queried both Init Systems.
ResolveNotFoundWitness ==
    \E s \in Services :
        /\ last.op = "Resolve" /\ last.who = s
        /\ Len(call.mgrs) = 3
        /\ Usable(call.mgrs) = {1, 3}
        /\ call.mgrs[1] # call.mgrs[3]
        /\ \A i \in {1, 3} : call.ans[call.mgrs[i]].err = ErrServiceNotFound
        /\ Len(last.lookups) = 2
        /\ last.result = ErrCouldNotFind
        /\ Manager[s] = Nil

\* C8: when a lookup fails with anything but "service not found", whatever
\* the kind of error, Resolve returns that same error at once: no later Init
\* System is queried, Manager stays unset, Process Status is unchanged.
ResolveHardErrorAborts ==
    \A s \in Services :
        LET d == Decisive(call.mgrs, call.ans)
        IN  (/\ last.op = "Resolve" /\ last.who = s
             /\ d # 0
             /\ call.ans[call.mgrs[d]].err # NoErr)
                => /\ last.result = call.ans[call.mgrs[d]].err
                   /\ QueriedExactly({i \in Usable(call.mgrs) : i <= d})
                   /\ Manager[s] = Nil
                   /\ Process[s] = NewStatus
                   /\ ~last.called
                   /\ ~crashed

\* ---- Manager binding and unresolved Services (Spec)

\* C9 as claimed: once a Service's Manager is set, no step changes it.
ManagerNeverReassigned ==
    [][\A s \in Services : Manager[s] # Nil => Manager'[s] = Manager[s]]_vars

\* C9 as amended: once a Service's Manager is set, no step clears it, no
\* Collect, Restart or Verify changes it, and only a Resolve call that finds
\* the service rebinds it, to the Init System that Resolve found.
ManagerReboundOnlyByResolve ==
    [][\A s \in Services :
          Manager[s] # Nil =>
              /\ Manager'[s] # Nil
              /\ Manager'[s] # Manager[s] =>
                    /\ last'.op = "Resolve" /\ last'.who = s
                    /\ last'.called
                    /\ last'.lookups[Len(last'.lookups)].sm = Manager'[s]]_vars

\* C9 witness: a Resolve call on a bound Service has found the service
\* nowhere, and the Service is still bound.
ManagerStaysBoundWitness ==
    \E s \in Services :
        /\ last.op = "Resolve" /\ last.who = s
        /\ ~last.called
        /\ last.lookups # <<>>
        /\ last.result = NoErr
        /\ Manager[s] # Nil

\* C10: every step of a Collect on a Service whose Manager is unset leaves
\* Process Status and Manager as they were, makes no lookup, no capture and
\* no probe and emits no event; returning, it has called onComplete.
CollectUnresolvedHasNoEffect ==
    [][\A s \in Services :
          (last'.op = "Collect" /\ last'.who = s /\ Manager[s] = Nil) =>
              /\ Process' = Process
              /\ Manager' = Manager
              /\ restarting' = restarting
              /\ crashed' = crashed
              /\ last'.lookups = <<>>
              /\ ~last'.called
              /\ last'.emitted = <<>>
              /\ last'.path \in {<<"unresolved">>, <<"unresolved", "return">>}
              /\ pc'[s] = "idle" => completed'[s] = <<s>>]_vars

\* C10 witness: the Collect of an unresolved Service has returned; it was not
\* the Service's first.
CollectUnresolvedWitness ==
    \E s \in Services :
        /\ last.op = "Collect" /\ last.who = s
        /\ last.path = <<"unresolved", "return">>
        /\ Manager[s] = Nil
        /\ Process[s] = NewStatus
        /\ pc[s] = "idle"
        /\ completed[s] = <<s>>

\* ---- Collect of a resolved Service (Spec)

\* The last step was a step of a Collect of s whose latest branch is tag.
CollectStepped(s, tag) ==
    /\ last.op = "Collect" /\ last.who = s
    /\ last.path # <<>>
    /\ last.path[Len(last.path)] = tag

\* C11: when the Collect of a Service that is Up fails to capture metrics and
\* the liveness probe finds the process, Process Status (Up, and the pid) is
\* left as it was and no event is emitted.
CollectProbeAliveKeepsUp ==
    [][\A s \in Services :
          CollectStepped(s, "probeAlive")' =>
              /\ Process[s].Status = Up
              /\ Process'[s] = Process[s]
              /\ ~last'.called
              /\ last'.emitted = <<>>]_vars

\* C11 witness: a Service that was Up when its Collect began has passed the
\* failed capture and the successful probe, and is Up with its pid.
CollectProbeAliveWitness ==
    \E s \in Services :
        /\ last.op = "Collect" /\ last.who = s
        /\ last.path = <<"enter", "captureErr", "probeAlive">>
        /\ Process[s].Status = Up
        /\ Process[s].Pid # 0

\* C12: when the Collect of a Service that is Up fails to capture metrics and
\* the liveness probe finds no process, the Service ends Down with pid 0 and
\* exactly one ProcessDoesNotExist event, with the Service as source, goes to
\* its EventHandler.
CollectProbeGoneMarksDown ==
    \A s \in Services :
        CollectStepped(s, "probeGone") =>
            /\ last.oldst = Up
            /\ Process[s] = [Pid |-> 0, Status |-> Down]
            /\ last.emitted = <<EventOf(ProcessDoesNotExist, s)>>

\* C12 witness: a Service that was Up when its Collect began has just been
\* marked Down by the failed probe.
CollectProbeGoneWitness ==
    \E s \in Services :
        /\ last.op = "Collect" /\ last.who = s
        /\ last.path = <<"enter", "captureErr", "probeGone">>
        /\ Process[s] = [Pid |-> 0, Status |-> Down]
        /\ last.emitted = <<EventOf(ProcessDoesNotExist, s)>>

\* C16: when the Manager lookup of a Collect returns an error, Process Status
\* is left as it was (not Up), no event is emitted, and the cycle goes on to
\* return with no metrics capture and no liveness probe.
CollectLookupErrorChangesNothing ==
    [][\A s \in Services :
          (last'.op = "Collect" /\ last'.who = s /\ "lookupErr" \in
                {last'.path[k] : k \in 1..Len(last'.path)}) =>
              /\ Manager[s] # Nil
              /\ Process[s].Status # Up
              /\ Process'[s] = Process[s]
              /\ ~last'.called
              /\ last'.emitted = <<>>
              /\ last'.path \in {<<"enter", "lookupErr">>,
                                 <<"enter", "lookupErr", "return">>}
              /\ pc'[s] \in {"defer", "idle"}]_vars

\* C16 witness: the Collect of a Service that is Down has returned after a
\* failed lookup, and the Service is still Down.
CollectLookupErrorWitness ==
    \E s \in Services :
        /\ last.op = "Collect" /\ last.who = s
        /\ last.path = <<"enter", "lookupErr", "return">>
        /\ Process[s].Status = Down
        /\ completed[s] = <<s>>

\* ---- Verify (Spec)

\* The positions of log whose entry is a Check, and those that are a Trigger
\* of rule i.
CheckAt(log, i) ==
    CHOOSE k \in 1..Len(log) : log[k].kind = "check" /\ log[k].rule = i

TriggersOf(log, i) ==
    {k \in 1..Len(log) : log[k].kind = "trigger" /\ log[k].rule = i}

\* C13: Verify checks the rules in their order; it returns exactly the Events
\* of the rules that yielded one, in rule order; each Action of such a rule is
\* triggered once with the rule's Event, in action order, after the rule's
\* Check and before the Check of the next rule; no Action of a rule that
\* yielded no Event is triggered.
VerifyTriggersPerRule ==
    \A c \in Checkables :
        (last.op = "Verify" /\ last.who = c) =>
            LET n == Len(Rules(c))
                log == last.log
                checks == {k \in 1..Len(log) : log[k].kind = "check"}
            IN  /\ Cardinality(checks) = n
                /\ \A i \in 1..n : \E k \in checks : log[k].rule = i
                /\ \A k, l \in checks : k < l => log[k].rule < log[l].rule
                /\ Len(last.events) = Cardinality(last.fired)
                /\ \A k \in 1..Len(last.events) :
                      /\ last.events[k].Payload \in last.fired
                      /\ last.events[k].Source = c
                      /\ \A l \in 1..Len(last.events) :
                            k < l => last.events[k].Payload < last.events[l].Payload
                /\ \A i \in 1..n :
                      LET acts == Rules(c)[i].Actions
                          trg == TriggersOf(log, i)
                          mine == {k \in 1..Len(last.triggered) :
                                      last.triggered[k].rule = i}
                      IN  IF i \notin last.fired
                          THEN trg = {} /\ mine = {}
                          ELSE /\ Cardinality(trg) = Len(acts)
                               /\ Cardinality(mine) = Len(acts)
                               /\ \A a \in 1..Len(acts) :
                                     \E k \in trg : log[k].action = a
                               /\ \A k, l \in trg :
                                     k < l => log[k].action < log[l].action
                               /\ \A k \in trg : k > CheckAt(log, i)
                               /\ i < n => \A k \in trg : k < CheckAt(log, i + 1)
                               /\ \A k \in mine :
                                     /\ last.triggered[k].evt \in
                                            {last.events[e] : e \in 1..Len(last.events)}
                                     /\ last.triggered[k].evt.Payload = i
                               /\ \A k, l \in mine :
                                     k < l => \E a, b \in 1..Len(acts) :
                                                 /\ a < b
                                                 /\ last.triggered[k].action = acts[a]
                                                 /\ last.triggered[l].action = acts[b]

\* C13 witness: of the three rules of a Service only the second yielded an
\* Event; one Event is returned and the second rule's two Actions were
\* triggered with it, in their order.
VerifySecondRuleWitness ==
    \E s \in Services :
        /\ last.op = "Verify" /\ last.who = s
        /\ last.fired = {2}
        /\ Len(last.events) = 1
        /\ [k \in 1..Len(last.triggered) |-> last.triggered[k].action]
               = Rules(s)[2].Actions
        /\ Len(Rules(s)[2].Actions) = 2

\* ---- Restart and the changes of Process Status (Spec)

\* C14: Restart returns success while the Manager's restart is still to run;
\* right after it the Service is Starting with pid 0 whatever it was before;
\* neither Restart nor its detached task, succeeding or failing, emits an
\* event or calls Transition, and the task leaves Process Status alone.
RestartReturnsAtOnce ==
    [][\A s \in Services :
          /\ (last'.op = "Restart" /\ last'.who = s) =>
                /\ last'.result = NoErr
                /\ restarting'[s] = restarting[s] + 1
                /\ Process'[s] = [Pid |-> 0, Status |-> Starting]
                /\ ~last'.called
                /\ last'.emitted = <<>>
          /\ (last'.op = "Restart.go" /\ last'.who = s) =>
                /\ Process' = Process
                /\ ~last'.called
                /\ last'.emitted = <<>>]_vars

\* C14 witness: Restart has returned on a resolved Service and the Manager's
\* restart has not run yet.
RestartInFlightWitness ==
    \E s \in Services :
        /\ last.op = "Restart" /\ last.who = s
        /\ last.result = NoErr
        /\ Manager[s] # Nil
        /\ restarting[s] > 0
        /\ Process[s] = [Pid |-> 0, Status |-> Starting]

\* A Restart of s ran in the step: called directly or by a triggered Action.
Restarted(step, s) ==
    /\ step.who = s
    /\ \/ step.op = "Restart"
       \/ step.op = "Verify" /\ Restarts(step.triggered) > 0

VerifyLeavesProcess ==
    [][\A s \in Services :
          (last'.op = "Verify" /\ last'.who = s) => Process'[s] = Process[s]]_vars

\* C18 as amended: Verify leaves Process Status as it was unless an Action it
\* triggered restarts the Service; then the Service is Starting with pid 0
\* when Verify returns.
VerifyChangesProcessOnlyByRestart ==
    [][\A s \in Services :
          (last'.op = "Verify" /\ last'.who = s) =>
              /\ ~last'.called
              /\ last'.emitted = <<>>
              /\ IF \E k \in 1..Len(last'.triggered) :
                        last'.triggered[k].action = "restart"
                 THEN Process'[s] = [Pid |-> 0, Status |-> Starting]
                 ELSE Process'[s] = Process[s]]_vars

\* C18 witness: Verify has triggered the restart Action of the second rule and
\* the Service, resolved before, is Starting with pid 0.
VerifyRestartedWitness ==
    \E s \in Services :
        /\ last.op = "Verify" /\ last.who = s
        /\ 2 \in last.fired
        /\ \E k \in 1..Len(last.triggered) : last.triggered[k].action = "restart"
        /\ Manager[s] # Nil
        /\ Process[s] = [Pid |-> 0, Status |-> Starting]

\* ---- The cycles after startup (LifeSpec, FairLifeSpec)

\* The events Transition prescribes for a move to status st from status old.
Prescribed(s, old, st) ==
    IF st = Up THEN (IF old # Unknown THEN <<EventOf(ProcessExists, s)>> ELSE <<>>)
    ELSE IF st = Down THEN <<EventOf(ProcessDoesNotExist, s)>>
    ELSE <<>>

\* A Service that Restart left Starting stays so until a Collect runs; that
\* Collect queries the Manager; a lookup that succeeds makes the Process
\* Status the one reported, with the events Transition prescribes.
StartingUntilLookup ==
    [][\A s \in Services :
          (Manager[s] # Nil /\ Process[s].Status = Starting) =>
              /\ Process'[s].Status # Starting =>
                    /\ last'.op = "Collect" /\ last'.who = s
                    /\ last'.lookups # <<>>
              /\ last'.op = "Restart.go" => Process'[s] = Process[s]
              /\ (last'.op = "Collect" /\ last'.who = s /\ pc[s] = "idle") =>
                    pc'[s] = "lookup"
              /\ (last'.op = "Collect" /\ last'.who = s /\ pc[s] = "lookup") =>
                    /\ Len(last'.lookups) = 1
                    /\ last'.lookups[1].sm = Manager[s]
                    /\ last'.lookups[1].ret.err = NoErr =>
                          /\ Process'[s] = last'.lookups[1].ret.ps
                          /\ last'.emitted =
                                 Prescribed(s, Starting, last'.lookups[1].ret.ps.Status)]_vars

\* The last step was a lookup of Collect to which the Manager reported that
\* the Service is Starting.
ReportedStarting(s) ==
    /\ last.op = "Collect" /\ last.who = s
    /\ last.lookups # <<>>
    /\ last.lookups[1].ret.err = NoErr
    /\ last.lookups[1].ret.ps.Status = Starting

\* C19 as stated: the above, and under repeated cycles whose lookups succeed
\* again and again a resolved Service that is Starting does not stay so.
StartingNotForever ==
    /\ StartingUntilLookup
    /\ \A s \in Services :
          (Manager[s] # Nil /\ Process[s].Status = Starting)
              ~> (Process[s].Status # Starting)

\* C19 as amended: the above, and under repeated cycles whose lookups succeed
\* again and again a resolved Service that is Starting leaves Starting unless
\* Starting is what the Manager reports.
StartingUntilReportedOtherwise ==
    /\ StartingUntilLookup
    /\ \A s \in Services :
          (Manager[s] # Nil /\ Process[s].Status = Starting)
              ~> (Process[s].Status # Starting \/ ReportedStarting(s))

\* C19 witness: the Collect after a Restart has found the Service running;
\* the Service went from Starting to Up and ProcessExists was emitted.
StartingToUpWitness ==
    \E s \in Services :
        /\ last.op = "Collect" /\ last.who = s
        /\ last.path = <<"enter", "lookupOk">>
        /\ last.called /\ last.oldst = Starting
        /\ Process[s].Status = Up /\ Process[s].Pid # 0
        /\ last.emitted = <<EventOf(ProcessExists, s)>>

\* C20: with Resolve called once, on the fresh Service, a Collect queries the
\* Manager only when the status is not Up, and ProcessExists is emitted only
\* by a Collect, for a Service that was Starting or Down just before: not by
\* the Resolve that finds it Up, not while it is Up.
ProcessExistsOnlyOnRecovery ==
    [][\A s \in Services :
          /\ (last'.op = "Collect" /\ last'.who = s /\ last'.lookups # <<>>) =>
                /\ Process[s].Status # Up
                /\ last'.path[1] = "enter" /\ Len(last'.path) = 2
          /\ (last'.who = s /\ \E k \in 1..Len(last'.emitted) :
                                  last'.emitted[k].Type = ProcessExists) =>
                /\ last'.op = "Collect"
                /\ Process[s].Status \in {Starting, Down}
                /\ Process'[s].Status = Up]_vars

\* C20 witness: a Collect found a Service that was Down running again and
\* emitted ProcessExists.
RecoveryAnnouncedWitness ==
    \E s \in Services :
        /\ last.op = "Collect" /\ last.who = s
        /\ last.called /\ last.oldst = Down
        /\ Process[s].Status = Up
        /\ last.emitted = <<EventOf(ProcessExists, s)>>

\* ---- Collects in parallel (CycleSpec)

\* What the environment answers to one Collect.
SoloInputs == [ret : LookupResults, merr : BOOLEAN, gone : BOOLEAN]

\* A step of a Collect run on its own: the branch, the Process Status after
\* it and the events emitted by it.
SoloStep(tag, proc, emitted) == [tag |-> tag, Process |-> proc, emitted |-> emitted]

\* Collect of Service s run on its own, from Process Status proc and Manager
\* mgr, with answers in: the steps it takes, in order.
SoloRun(s, proc, mgr, in) ==
    IF mgr = Nil
    THEN <<SoloStep("unresolved", proc, <<>>), SoloStep("return", proc, <<>>)>>
    ELSE LET found == Transition(proc, in.ret.ps)
             looked ==
                 IF proc.Status = Up THEN <<>>
                 ELSE IF in.ret.err # NoErr THEN <<SoloStep("lookupErr", proc, <<>>)>>
                 ELSE <<SoloStep("lookupOk", in.ret.ps, Emitter(s, found.emitted))>>
             p2 == IF looked = <<>> THEN proc ELSE looked[1].Process
             down == [Pid |-> 0, Status |-> Down]
             captured ==
                 IF p2.Status # Up THEN <<>>
                 ELSE IF ~in.merr THEN <<SoloStep("captureOk", p2, <<>>)>>
                 ELSE IF in.gone /\ p2.Pid # 0
                      THEN <<SoloStep("captureErr", p2, <<>>),
                             SoloStep("probeGone", down,
                                      <<EventOf(ProcessDoesNotExist, s)>>)>>
                      ELSE <<SoloStep("captureErr", p2, <<>>),
                             SoloStep("probeAlive", p2, <<>>)>>
             body == <<SoloStep("enter", proc, <<>>)>> \o looked \o captured
         IN  Append(body, SoloStep("return", body[Len(body)].Process, <<>>))

\* The answers that agree with the branches p a Collect of s has taken and
\* with the Process Status it has stored: a lookup that succeeded reported the
\* status stored, or, when the probe has since found the process gone, Up with
\* some pid.
Answered(s, p) ==
    LET tags == {p[k] : k \in 1..Len(p)}
        failed == [ps |-> NoStatus, err |-> ErrManagerFailed]
        rets == IF "lookupOk" \notin tags THEN {failed}
                ELSE IF "probeGone" \notin tags
                     THEN {[ps |-> Process[s], err |-> NoErr]}
                     ELSE {[ps |-> [Pid |-> x, Status |-> Up], err |-> NoErr] :
                              x \in Pids}
    IN  {[ret |-> r, merr |-> "captureErr" \in tags, gone |-> "probeGone" \in tags] :
            r \in rets}

\* The Collect of s, having taken the branches p, is where a Collect of s run
\* on its own is after the same branches: the same Process Status, and, when
\* the last step was its step, the same events emitted by that step.
AsAlone(s, p) ==
    \E in \in Answered(s, p) :
        LET run == SoloRun(s, call.start[s], call.bound[s], in)
            k == Len(p)
        IN  /\ k \in 1..Len(run)
            /\ \A j \in 1..k : run[j].tag = p[j]
            /\ run[k].Process = Process[s]
            /\ (last.op = "Collect" /\ last.who = s) =>
                   /\ last.path = p
                   /\ last.emitted = run[k].emitted
            /\ (pc[s] = "idle") = (k = Len(run))

\* C15: with the Collects of different Checkables interleaved in any way,
\* every Service keeps its Manager and, at every point, has the Process Status
\* that its own Collect, run on its own from where the Service started, has
\* at the point it has reached, and every step of its Collect emits the events
\* that run emits: nothing before its Collect begins, the same at each branch,
\* and the same at the end.
CollectsIsolated ==
    \A s \in Pair :
        /\ Manager[s] = call.bound[s]
        /\ IF pc[s] # "idle" THEN AsAlone(s, path[s])
           ELSE IF completed[s] = <<>>
                THEN Process[s] = call.start[s] /\ path[s] = <<>>
           ELSE IF last.op = "Collect" /\ last.who = s
                THEN AsAlone(s, last.path)
           ELSE \E in \in SoloInputs :
                   LET run == SoloRun(s, call.start[s], call.bound[s], in)
                   IN  run[Len(run)].Process = Process[s]

\* C15 witness: while the Collect of one Service is between its capture and
\* its return, the Collect of the other has found its process gone, marked
\* its own Service Down and emitted the event; the first is still Up.
CollectsInterleavedWitness ==
    \E s, o \in Pair :
        /\ s # o
        /\ pc[o] \in {"capture", "probe"}
        /\ Process[o].Status = Up
        /\ last.op = "Collect" /\ last.who = s
        /\ last.path = <<"enter", "captureErr", "probeGone">>
        /\ Process[s] = [Pid |-> 0, Status |-> Down]
        /\ last.emitted = <<EventOf(ProcessDoesNotExist, s)>>

====
